---- MODULE Spec2Model ----
(***************************************************************************)
(* Model of src/ethereum/summarize.py: ProposalSummarizer.                 *)
(*                                                                         *)
(* Text is a sequence of one-character strings.  Optional values and the   *)
(* values a YAML decoder yields are tagged records, an exception raised by *)
(* a function is the record [t |-> "raise", exc |-> <type>].               *)
(***************************************************************************)
EXTENDS Integers, Sequences, FiniteSets, TLC

VARIABLES proposal_type, files, tier, pos, summaries, artifacts, log, pc, call, ret

vars == <<proposal_type, files, tier, pos, summaries, artifacts, log, pc, call, ret>>

(***************************************************************************)
(* Bounds of the model.                                                    *)
(***************************************************************************)
MaxTextLen == 5

MaxTokens == 8

MaxSectionPieces == 5

MaxFrontLines == 4

MaxBodyPieces == 4

MaxFiles == 2

(***************************************************************************)
(* Python values.                                                          *)
(***************************************************************************)
None == [t |-> "none"]

PyStr(s) == [t |-> "str", s |-> s]

PyInt(n) == [t |-> "int", n |-> n]

PyFloat(s) == [t |-> "float", f |-> s]

PyList(l) == [t |-> "list", l |-> l]

PyDict(m) == [t |-> "dict", m |-> m]

Raise(e) == [t |-> "raise", exc |-> e]

EmptyDict == PyDict(<<>>)

NL == "\n"

Whitespace == {" ", NL}

SetMin(S) == CHOOSE x \in S : \A y \in S : x <= y

\* s[i:j] of Python with 1-based inclusive ends; empty when j < i.
Slice(s, i, j) == IF j < i THEN <<>> ELSE SubSeq(s, i, j)

\* p occurs in s at index i.
HasAt(s, i, p) ==
    /\ i >= 1
    /\ i + Len(p) - 1 <= Len(s)
    /\ \A k \in 1..Len(p) : s[i + k - 1] = p[k]

\* Index of the first occurrence of p in s at or after from, 0 when there is none.
Find(s, p, from) ==
    LET hits == {i \in from..(Len(s) - Len(p) + 1) : HasAt(s, i, p)}
    IN  IF hits = {} THEN 0 ELSE SetMin(hits)

\* Python's `p in s` for strings.
Contains(s, p) == Find(s, p, 1) # 0

\* str.strip()
Strip(s) ==
    LET keep == {i \in 1..Len(s) : s[i] \notin Whitespace}
    IN  IF keep = {} THEN <<>>
        ELSE SubSeq(s, SetMin(keep), CHOOSE x \in keep : \A y \in keep : y <= x)

\* str.split(): the maximal runs of non-whitespace characters, in order.
Split(s) ==
    LET starts == {i \in 1..Len(s) :
                      s[i] \notin Whitespace /\ (i = 1 \/ s[i - 1] \in Whitespace)}
        ends   == {i \in 1..Len(s) :
                      s[i] \notin Whitespace /\ (i = Len(s) \/ s[i + 1] \in Whitespace)}
        nth(S, k) == CHOOSE x \in S : Cardinality({y \in S : y < x}) = k - 1
    IN  [k \in 1..Cardinality(starts) |-> SubSeq(s, nth(starts, k), nth(ends, k))]

\* sep.join(parts)
RECURSIVE Join(_, _)
Join(parts, sep) ==
    IF parts = <<>> THEN <<>>
    ELSE IF Len(parts) = 1 THEN parts[1]
    ELSE Join(SubSeq(parts, 1, Len(parts) - 1), sep) \o sep \o parts[Len(parts)]

(***************************************************************************)
(* String literals of the source.                                          *)
(***************************************************************************)
S_None == <<"N", "o", "n", "e">>

S_null == <<"n", "u", "l", "l">>

S_eip == <<"e", "i", "p">>

S_erc == <<"e", "r", "c">>

S_Unknown == <<"U", "n", "k", "n", "o", "w", "n">>

S_moved == <<"m", "o", "v", "e", "d">>

S_status == <<"s", "t", "a", "t", "u", "s">>

S_requires == <<"r", "e", "q", "u", "i", "r", "e", "s">>

S_title == <<"t", "i", "t", "l", "e">>

S_type == <<"t", "y", "p", "e">>

S_category == <<"c", "a", "t", "e", "g", "o", "r", "y">>

S_Abstract == <<"A", "b", "s", "t", "r", "a", "c", "t">>

S_Specification == <<"S", "p", "e", "c", "i", "f", "i", "c", "a", "t", "i", "o", "n">>

S_Motivation == <<"M", "o", "t", "i", "v", "a", "t", "i", "o", "n">>

S_Rationale == <<"R", "a", "t", "i", "o", "n", "a", "l", "e">>

S_SUMMARY == <<"S", "U", "M", "M", "A", "R", "Y">>

S_SPECIFICATION == <<"S", "P", "E", "C", "I", "F", "I", "C", "A", "T", "I", "O", "N">>

S_MOTIVATION == <<"M", "O", "T", "I", "V", "A", "T", "I", "O", "N">>

S_RATIONALE == <<"R", "A", "T", "I", "O", "N", "A", "L", "E">>

S_TitleLabel == <<"T", "I", "T", "L", "E", ":", " ">>

S_TypeLabel == <<"T", "Y", "P", "E", ":", " ">>

S_StatusLabel == <<"S", "T", "A", "T", "U", "S", ":", " ">>

S_CreatedLabel == <<"C", "R", "E", "A", "T", "E", "D", ":", " ">>

S_RequiresLabel == <<"R", "E", "Q", "U", "I", "R", "E", "S", ":", " ">>

S_ErrorPrefix == <<"E", "R", "R", "O", "R", " ", "p", "r", "o", "c", "e", "s", "s", "i", "n", "g", " ">>

S_NotIterable == <<"'", " ", "o", "b", "j", "e", "c", "t", " ", "i", "s", " ", "n", "o", "t", " ", "i", "t", "e", "r", "a", "b", "l", "e">>

S_NoGet == <<"'", " ", "o", "b", "j", "e", "c", "t", " ", "h", "a", "s", " ", "n", "o", " ", "a", "t", "t", "r", "i", "b", "u", "t", "e", " ", "'", "g", "e", "t", "'">>

S_NoneType == <<"N", "o", "n", "e", "T", "y", "p", "e">>

S_short == <<"s", "h", "o", "r", "t">>

S_medium == <<"m", "e", "d", "i", "u", "m">>

S_long == <<"l", "o", "n", "g">>

S_SummariesInfix == <<"_", "s", "u", "m", "m", "a", "r", "i", "e", "s", "_">>

S_TxtSuffix == <<".", "t", "x", "t">>

S_created == <<"c", "r", "e", "a", "t", "e", "d">>

(***************************************************************************)
(* truncate_to_tokens                                                      *)
(***************************************************************************)
\* WordLimit rounding the quotient to the nearest integer.
WordLimitRounded(max_tokens) ==
    IF max_tokens >= 0 THEN (10 * max_tokens + 6) \div 13
    ELSE -((10 * (-max_tokens) + 6) \div 13)

\* int(max_tokens / 1.3): the quotient rounded toward zero.
WordLimit(max_tokens) ==
    IF max_tokens >= 0 THEN (10 * max_tokens) \div 13
    ELSE -((10 * (-max_tokens)) \div 13)

\* words[:limit] of Python: a negative limit counts from the end.
SlicePrefix(words, limit) ==
    IF limit >= 0
    THEN Slice(words, 1, IF limit < Len(words) THEN limit ELSE Len(words))
    ELSE Slice(words, 1, Len(words) + limit)

truncate_to_tokens(text, max_tokens) ==
    Join(SlicePrefix(Split(text), WordLimit(max_tokens)), <<" ">>)

(***************************************************************************)
(* extract_section                                                         *)
(***************************************************************************)
SectionMark == <<"#", "#", " ">>

\* End (exclusive) of the lazy group (.*?) followed by (?=\n## |$), from index b.
SectionEnd(content, b) ==
    SetMin({e \in b..(Len(content) + 1) :
               \/ e = Len(content) + 1
               \/ e = Len(content) /\ content[e] = NL
               \/ HasAt(content, e, <<NL>> \o SectionMark)})

extract_section(content, section) ==
    LET head == SectionMark \o section \o <<NL>>
        at   == Find(content, head, 1)
        b    == at + Len(head)
    IN  IF at = 0 THEN None
        ELSE PyStr(Strip(Slice(content, b, SectionEnd(content, b) - 1)))

(***************************************************************************)
(* Case mapping and the rendering of values.                               *)
(***************************************************************************)
LowerLetters == <<"a", "b", "c", "d", "e", "f", "g", "h", "i", "j", "k", "l", "m", "n", "o", "p", "q", "r", "s", "t", "u", "v", "w", "x", "y", "z">>

UpperLetters == <<"A", "B", "C", "D", "E", "F", "G", "H", "I", "J", "K", "L", "M", "N", "O", "P", "Q", "R", "S", "T", "U", "V", "W", "X", "Y", "Z">>

Digits == <<"0", "1", "2", "3", "4", "5", "6", "7", "8", "9">>

IndexOf(seq, c) == CHOOSE i \in 1..Len(seq) : seq[i] = c

InSeq(seq, c) == \E i \in 1..Len(seq) : seq[i] = c

\* str.lower() and str.upper(), character by character.
Lower(s) ==
    [i \in 1..Len(s) |->
        IF InSeq(UpperLetters, s[i]) THEN LowerLetters[IndexOf(UpperLetters, s[i])] ELSE s[i]]

Upper(s) ==
    [i \in 1..Len(s) |->
        IF InSeq(LowerLetters, s[i]) THEN UpperLetters[IndexOf(LowerLetters, s[i])] ELSE s[i]]

IsDigits(s) == s # <<>> /\ \A i \in 1..Len(s) : InSeq(Digits, s[i])

RECURSIVE ToInt(_)
ToInt(s) ==
    IF s = <<>> THEN 0
    ELSE 10 * ToInt(SubSeq(s, 1, Len(s) - 1)) + (IndexOf(Digits, s[Len(s)]) - 1)

RECURSIVE IntToStr(_)
IntToStr(n) ==
    IF n < 0 THEN <<"-">> \o IntToStr(-n)
    ELSE IF n < 10 THEN <<Digits[n + 1]>>
    ELSE IntToStr(n \div 10) \o <<Digits[(n % 10) + 1]>>

\* repr() of a scalar inside the str() of a list.
ReprOf(v) ==
    CASE v.t = "int"   -> IntToStr(v.n)
      [] v.t = "float" -> v.f
      [] v.t = "none"  -> S_None
      [] v.t = "str"   -> <<"'">> \o v.s \o <<"'">>

\* str(v), as an f-string or str() renders a decoded value.
StrOf(v) ==
    CASE v.t = "int"   -> IntToStr(v.n)
      [] v.t = "float" -> v.f
      [] v.t = "none"  -> S_None
      [] v.t = "str"   -> v.s
      [] v.t = "list"  ->
            <<"[">> \o Join([i \in 1..Len(v.l) |-> ReprOf(v.l[i])], <<",", " ">>) \o <<"]">>

(***************************************************************************)
(* yaml.safe_load on the block-style header bodies of proposals: lines     *)
(* that start in column 0 and are `key: value` entries, `- value` items or *)
(* plain text, after an optional `---` document marker.                    *)
(*   - no line: None;                                                      *)
(*   - entries, each `key:` without a value possibly followed by items: a  *)
(*     mapping (a repeated key keeps its last value);                      *)
(*   - items only: a list;                                                 *)
(*   - a plain first line with no entry after it: one folded scalar;       *)
(*   - anything else is malformed and raises yaml.YAMLError.               *)
(***************************************************************************)
YAMLError == Raise("YAMLError")

\* The pieces of s between occurrences of the character c.
SplitOn(s, c) ==
    LET seps == {i \in 1..Len(s) : s[i] = c}
        nth(k) == IF k = 0 THEN 0
                  ELSE IF k > Cardinality(seps) THEN Len(s) + 1
                  ELSE CHOOSE x \in seps : Cardinality({y \in seps : y < x}) = k - 1
    IN  [k \in 1..(Cardinality(seps) + 1) |-> Slice(s, nth(k - 1) + 1, nth(k) - 1)]

IsBlank(line) == Strip(line) = <<>>

\* Index of the colon that ends a key: followed by a space or the end of the line.
KeyColon(line) ==
    LET hits == {i \in 1..Len(line) :
                    line[i] = ":" /\ (i = Len(line) \/ line[i + 1] = " ")}
    IN  IF hits = {} THEN 0 ELSE SetMin(hits)

IsItem(line) == line = <<"-">> \/ HasAt(line, 1, <<"-", " ">>)

IsEntry(line) == ~IsItem(line) /\ KeyColon(line) > 1

IsFloatText(s) ==
    \E i \in 2..(Len(s) - 1) :
        s[i] = "." /\ IsDigits(SubSeq(s, 1, i - 1)) /\ IsDigits(SubSeq(s, i + 1, Len(s)))

\* The value of a plain one-line scalar.
ScalarOf(text) ==
    LET s == Strip(text)
    IN  IF s = <<>> \/ s = <<"~">> \/ s = S_null THEN None
        ELSE IF IsDigits(s) THEN PyInt(ToInt(s))
        ELSE IF IsFloatText(s) THEN PyFloat(s)
        ELSE PyStr(s)

ItemValue(line) == ScalarOf(Slice(line, 2, Len(line)))

EntryKey(line) == SubSeq(line, 1, KeyColon(line) - 1)

EntryText(line) == Strip(Slice(line, KeyColon(line) + 1, Len(line)))

\* The item lines that follow entry i, up to the next entry.
ItemsAfter(lines, i) ==
    LET later == {j \in (i + 1)..Len(lines) : IsEntry(lines[j])}
        stop  == IF later = {} THEN Len(lines) + 1 ELSE SetMin(later)
    IN  [k \in 1..(stop - i - 1) |-> ItemValue(lines[i + k])]

\* The value of an entry line that `items` follow.
ValueWith(items, line) ==
    IF items # <<>> THEN PyList(items) ELSE ScalarOf(EntryText(line))

EntryValue(lines, i) == ValueWith(ItemsAfter(lines, i), lines[i])

\* Entries and the items of entries without a value, and nothing else.
IsMapping(lines) ==
    /\ IsEntry(lines[1])
    /\ \A i \in 1..Len(lines) :
          \/ IsEntry(lines[i]) /\ (ItemsAfter(lines, i) # <<>> => EntryText(lines[i]) = <<>>)
          \/ IsItem(lines[i])

MappingOf(lines) ==
    LET entries == {i \in 1..Len(lines) : IsEntry(lines[i])}
        last(k) == CHOOSE i \in entries :
                      /\ EntryKey(lines[i]) = k
                      /\ \A j \in entries : j > i => EntryKey(lines[j]) # k
    IN  [k \in {EntryKey(lines[i]) : i \in entries} |-> EntryValue(lines, last(k))]

\* A plain scalar over several lines: a line break folds to a space, each blank
\* line between two lines to a line break.
RECURSIVE Fold(_)
Fold(lines) ==
    IF Len(lines) = 1 THEN Strip(lines[1])
    ELSE LET init == Fold(SubSeq(lines, 1, Len(lines) - 1))
             line == lines[Len(lines)]
         IN  IF IsBlank(line) THEN init \o <<NL>>
             ELSE IF IsBlank(lines[Len(lines) - 1]) THEN init \o Strip(line)
             ELSE init \o <<" ">> \o Strip(line)

\* The body's lines without the document marker and the blank lines around.
BodyLines(body) ==
    LET all   == SplitOn(body, NL)
        from  == IF all[1] = <<"-", "-", "-">> THEN 2 ELSE 1
        solid == {i \in from..Len(all) : ~IsBlank(all[i])}
    IN  IF solid = {} THEN <<>>
        ELSE SubSeq(all, SetMin(solid), CHOOSE x \in solid : \A y \in solid : y <= x)

\* The document of the body lines `raw`, `lines` being those that are not blank.
LoadLines(raw, lines) ==
    IF lines = <<>> THEN None
    ELSE IF IsMapping(lines) THEN PyDict(MappingOf(lines))
    ELSE IF \A i \in 1..Len(lines) : IsItem(lines[i])
         THEN PyList([i \in 1..Len(lines) |-> ItemValue(lines[i])])
    ELSE IF ~IsEntry(lines[1]) /\ ~IsItem(lines[1])
            /\ \A i \in 1..Len(lines) : ~IsEntry(lines[i])
         THEN IF Len(lines) = 1 THEN ScalarOf(lines[1]) ELSE PyStr(Fold(raw))
    ELSE YAMLError

\* The body lines with the blank ones dropped.
Solid(raw) == SelectSeq(raw, LAMBDA l : ~IsBlank(l))

LoadBody(raw) == LoadLines(raw, Solid(raw))

safe_load(body) == LoadBody(BodyLines(body))

(***************************************************************************)
(* extract_frontmatter                                                     *)
(***************************************************************************)
Fence == <<"-", "-", "-">>

\* group(1) of re.search(r"^---\n(.*?)\n---", content, re.DOTALL), or None.
FrontmatterMatch(content) ==
    LET close == Find(content, <<NL>> \o Fence, Len(Fence) + 2)
    IN  IF HasAt(content, 1, Fence \o <<NL>>) /\ close # 0
        THEN PyStr(Slice(content, Len(Fence) + 2, close - 1))
        ELSE None

\* Python's `key in obj` for the containers a header can decode to.
KeyIn(key, obj) ==
    CASE obj.t = "dict" -> key \in DOMAIN obj.m
      [] obj.t = "str"  -> Contains(obj.s, key)
      [] obj.t = "list" -> \E i \in 1..Len(obj.l) : obj.l[i] = PyStr(key)

\* The alias of a missing 'erc' from 'eip' in erc mode; `in` raises a TypeError on
\* a value that is no container, and so does indexing a str or a list by 'eip'.
AliasErc(ptype, metadata) ==
    IF ptype # S_erc THEN metadata
    ELSE IF metadata.t \notin {"dict", "str", "list"} THEN Raise("TypeError")
    ELSE IF ~KeyIn(S_erc, metadata) /\ KeyIn(S_eip, metadata)
         THEN IF metadata.t = "dict"
              THEN PyDict([k \in DOMAIN metadata.m \cup {S_erc} |->
                              IF k = S_erc THEN metadata.m[S_eip] ELSE metadata.m[k]])
              ELSE Raise("TypeError")
    ELSE metadata

\* Lines 27-34: the decoded header with its alias, {} on a yaml.YAMLError.
Decoded(ptype, metadata) ==
    IF metadata = YAMLError THEN EmptyDict ELSE AliasErc(ptype, metadata)

\* Lines 25-34, for the outcome `match` of the search of line 24.
MatchedHeader(ptype, match) ==
    IF match = None THEN EmptyDict ELSE Decoded(ptype, safe_load(match.s))

extract_frontmatter(ptype, content) == MatchedHeader(ptype, FrontmatterMatch(content))

(***************************************************************************)
(* generate_summary                                                        *)
(***************************************************************************)
\* dict.get(key, default)
Get(m, key, default) == IF key \in DOMAIN m THEN m[key] ELSE default

\* type(v).__name__
TypeName(v) ==
    CASE v.t = "none"  -> S_NoneType
      [] v.t = "int"   -> <<"i", "n", "t">>
      [] v.t = "float" -> <<"f", "l", "o", "a", "t">>
      [] v.t = "str"   -> <<"s", "t", "r">>
      [] v.t = "list"  -> <<"l", "i", "s", "t">>

\* ProposalNum trying both fields in both modes.
ProposalNumEitherField(ptype, m) ==
    IF ptype = S_eip THEN Get(m, S_eip, Get(m, S_erc, PyStr(S_Unknown)))
    ELSE Get(m, S_erc, Get(m, S_eip, PyStr(S_Unknown)))

\* Lines 58-62: the proposal number of a decoded mapping.
ProposalNum(ptype, m) ==
    IF ptype = S_eip THEN Get(m, S_eip, PyStr(S_Unknown))
    ELSE Get(m, S_erc, Get(m, S_eip, PyStr(S_Unknown)))

\* Lines 65-69: an int becomes a one-element list, None the empty list.
NormalizeRequires(m) ==
    LET requires == Get(m, S_requires, PyList(<<>>))
    IN  IF requires.t = "int" THEN PyList(<<requires>>)
        ELSE IF requires.t = "none" THEN PyList(<<>>)
        ELSE requires

\* Whether `for r in requires` can iterate v; it raises a TypeError when it cannot.
IsIterable(v) == v.t \in {"list", "str"}

\* The items `for r in requires` yields: a list's elements, a str's characters.
Iterate(v) ==
    CASE v.t = "list" -> v.l
      [] v.t = "str"  -> [i \in 1..Len(v.s) |-> PyStr(<<v.s[i]>>)]

\* Line 80: the REQUIRES part.
RequiresPart(items) ==
    S_RequiresLabel \o Join([i \in 1..Len(items) |-> StrOf(items[i])], <<",", " ">>) \o <<NL>>

\* Lines 74-81: the header parts.
HeaderParts(ptype, m, items) ==
    << <<"=", "=", "=", " ">> \o Upper(ptype) \o <<"-">> \o StrOf(ProposalNum(ptype, m))
           \o <<" ", "=", "=", "=">>,
       S_TitleLabel \o StrOf(Get(m, S_title, PyStr(S_Unknown))),
       S_TypeLabel \o StrOf(Get(m, S_type, PyStr(S_Unknown))) \o <<" ">>
           \o StrOf(Get(m, S_category, PyStr(<<>>))),
       S_StatusLabel \o StrOf(Get(m, S_status, PyStr(S_Unknown))),
       S_CreatedLabel \o StrOf(Get(m, S_created, PyStr(S_Unknown))),
       RequiresPart(items) >>

\* Lines 83-88: the sections dict, in insertion order.
SectionLabels == <<S_SUMMARY, S_SPECIFICATION, S_MOTIVATION, S_RATIONALE>>

SectionHeadings == <<S_Abstract, S_Specification, S_Motivation, S_Rationale>>

\* Truthy as `if section_content is not None:`.
TruthyNotNone(section_content) == section_content # None

\* Line 91: `if section_content:`.
Truthy(section_content) == section_content # None /\ section_content.s # <<>>

\* Line 93: one section part.
SectionPart(label, truncated) == label \o <<":", NL>> \o truncated \o <<NL>>

\* Lines 90-93: the section parts appended for the first n entries of the dict.
RECURSIVE SectionParts(_, _, _)
SectionParts(content, section_budget, n) ==
    IF n = 0 THEN <<>>
    ELSE LET section_content == extract_section(content, SectionHeadings[n])
             rest == SectionParts(content, section_budget, n - 1)
         IN  IF Truthy(section_content)
             THEN Append(rest, SectionPart(SectionLabels[n],
                                truncate_to_tokens(section_content.s, section_budget)))
             ELSE rest

\* Line 98: the record returned by the except branch.
ErrorRecord(proposal_num, message) ==
    PyStr(S_ErrorPrefix \o StrOf(proposal_num) \o <<":", " ">> \o message \o <<NL>>)

\* The summary parts of a readable document whose header decoded to a mapping.
SummaryParts(ptype, content, m, max_tokens) ==
    HeaderParts(ptype, m, Iterate(NormalizeRequires(m)))
        \o SectionParts(content, max_tokens \div 4, Len(SectionLabels))

\* `read` is what open() and f.read() give: PyStr(content) or a raised OSError.
\* An exception raised before line 58 leaves proposal_num unbound, so the except
\* branch itself raises UnboundLocalError.
\* Lines 58-98, for the outcome `metadata` of line 55.
SummaryOf(ptype, content, metadata, max_tokens) ==
    IF metadata.t = "raise" THEN Raise("UnboundLocalError")
    ELSE IF metadata.t # "dict"
         THEN ErrorRecord(PyStr(S_Unknown), <<"'">> \o TypeName(metadata) \o S_NoGet)
    ELSE IF ~IsIterable(NormalizeRequires(metadata.m))
         THEN ErrorRecord(ProposalNum(ptype, metadata.m),
                          <<"'">> \o TypeName(NormalizeRequires(metadata.m))
                              \o S_NotIterable)
    ELSE PyStr(Join(SummaryParts(ptype, content, metadata.m, max_tokens), <<NL>>))

generate_summary(ptype, read, max_tokens) ==
    IF read.t = "raise" THEN Raise("UnboundLocalError")
    ELSE SummaryOf(ptype, read.s, extract_frontmatter(ptype, read.s), max_tokens)

(***************************************************************************)
(* process_all_proposals                                                   *)
(***************************************************************************)
\* self.token_limits, in insertion order.
TokenLimits ==
    << [name |-> S_short, limit |-> 128],
       [name |-> S_medium, limit |-> 256],
       [name |-> S_long, limit |-> 512] >>

\* open() and f.read() of line 111: fails on an unreadable file.
FirstRead(file) ==
    IF file.io = "unreadable" THEN Raise("OSError") ELSE PyStr(file.content)

\* open() and f.read() of line 52: fails too on a file that vanished after line 111.
SecondRead(file) ==
    IF file.io \in {"unreadable", "vanishes"} THEN Raise("OSError") ELSE PyStr(file.content)

\* Line 108: the file name holds the proposal-type marker.
IsCandidate(ptype, file) == Contains(Lower(file.name), ptype \o <<"-">>)

\* StatusOf comparing the status as written, without .lower().
StatusOfCaseSensitive(metadata) ==
    IF metadata.t = "raise" THEN metadata
    ELSE IF metadata.t # "dict" THEN Raise("AttributeError")
    ELSE LET status == Get(metadata.m, S_status, PyStr(<<>>))
         IN  IF status.t # "str" THEN Raise("AttributeError")
             ELSE IF status.s = S_moved THEN PyStr(S_moved)
             ELSE PyStr(<<>>)

\* Line 116 on the outcome `metadata` of line 114: 'moved' for a moved proposal,
\* '' for one to summarise, or the exception raised.
StatusOf(metadata) ==
    IF metadata.t = "raise" THEN metadata
    ELSE IF metadata.t # "dict" THEN Raise("AttributeError")
    ELSE LET status == Get(metadata.m, S_status, PyStr(<<>>))
         IN  IF status.t # "str" THEN Raise("AttributeError")
             ELSE IF Lower(status.s) = S_moved THEN PyStr(S_moved)
             ELSE PyStr(<<>>)

\* Lines 111-116: 'moved' for a moved proposal, '' for one to summarise, or the
\* exception raised on the way.
MovedCheck(ptype, file) ==
    IF FirstRead(file).t = "raise" THEN FirstRead(file)
    ELSE StatusOf(extract_frontmatter(ptype, FirstRead(file).s))

\* Line 126: the artifact's file name.
OutputName(ptype, token_name) == ptype \o S_SummariesInfix \o token_name \o S_TxtSuffix

Scanning == pc = "scan" /\ pos <= Len(files)

NextFile ==
    /\ pos' = pos + 1
    /\ UNCHANGED <<proposal_type, files, tier, artifacts, pc, call, ret>>

\* Line 108 false: the file is no candidate.
SkipFile ==
    /\ Scanning
    /\ ~IsCandidate(proposal_type, files[pos])
    /\ NextFile
    /\ UNCHANGED <<summaries, log>>

\* Lines 116-118: a moved proposal is skipped.
SkipMoved ==
    /\ Scanning
    /\ IsCandidate(proposal_type, files[pos])
    /\ MovedCheck(proposal_type, files[pos]) = PyStr(S_moved)
    /\ NextFile
    /\ log' = Append(log, [event |-> "skip", tier |-> tier, file |-> pos])
    /\ UNCHANGED summaries

\* Lines 120-121: the summary (or the ERROR record) is appended.
AppendSummary ==
    /\ Scanning
    /\ IsCandidate(proposal_type, files[pos])
    /\ MovedCheck(proposal_type, files[pos]) = PyStr(<<>>)
    /\ \E summary \in {generate_summary(proposal_type, SecondRead(files[pos]),
                                       TokenLimits[tier].limit)} :
           /\ summary.t = "str"
           /\ summaries' = Append(summaries, summary.s)
    /\ NextFile
    /\ UNCHANGED log

\* PrintError without the except clause: the exception ends the run.
PrintErrorUncaught ==
    /\ Scanning
    /\ IsCandidate(proposal_type, files[pos])
    /\ \E check \in {MovedCheck(proposal_type, files[pos])} :
           \/ check.t = "raise"
           \/ /\ check = PyStr(<<>>)
              /\ generate_summary(proposal_type, SecondRead(files[pos]),
                                  TokenLimits[tier].limit).t = "raise"
    /\ pc' = "aborted"
    /\ UNCHANGED <<proposal_type, files, tier, pos, summaries, artifacts, log, call, ret>>

\* Lines 122-123: an exception of lines 111-121 is printed and the file passed over.
PrintError ==
    /\ Scanning
    /\ IsCandidate(proposal_type, files[pos])
    /\ \E check \in {MovedCheck(proposal_type, files[pos])} :
           \/ check.t = "raise"
           \/ /\ check = PyStr(<<>>)
              /\ generate_summary(proposal_type, SecondRead(files[pos]),
                                  TokenLimits[tier].limit).t = "raise"
    /\ NextFile
    /\ log' = Append(log, [event |-> "error", tier |-> tier, file |-> pos])
    /\ UNCHANGED summaries

\* Lines 126-128: the tier's artifact is written and the next tier starts.
WriteArtifact ==
    /\ pc = "scan"
    /\ pos > Len(files)
    /\ artifacts' = Append(artifacts,
                        [name |-> OutputName(proposal_type, TokenLimits[tier].name),
                         records |-> summaries,
                         text |-> Join(summaries, <<NL, NL>>)])
    /\ summaries' = <<>>
    /\ pos' = 1
    /\ IF tier < Len(TokenLimits)
       THEN tier' = tier + 1 /\ pc' = pc
       ELSE tier' = tier /\ pc' = "done"
    /\ UNCHANGED <<proposal_type, files, log, call, ret>>

Next == SkipFile \/ SkipMoved \/ AppendSummary \/ PrintError \/ WriteArtifact

(***************************************************************************)
(* The files rglob('*.md') can find under base_path.                       *)
(***************************************************************************)
FileDraft ==
    [name |-> <<"E", "I", "P", "-", "1", ".", "m", "d">>,
     io |-> "ok",
     content |-> <<"-", "-", "-", "\n", "e", "i", "p", ":", " ", "1", "\n", "t", "i", "t", "l", "e", ":", " ", "T", "\n", "s", "t", "a", "t", "u", "s", ":", " ", "D", "r", "a", "f", "t", "\n", "r", "e", "q", "u", "i", "r", "e", "s", ":", " ", "5", "\n", "-", "-", "-", "\n", "#", "#", " ", "A", "b", "s", "t", "r", "a", "c", "t", "\n", "H", "e", "l", "l", "o", " ", "w", "o", "r", "l", "d", ".", "\n", "#", "#", " ", "M", "o", "t", "i", "v", "a", "t", "i", "o", "n", "\n", "\n", "#", "#", " ", "R", "a", "t", "i", "o", "n", "a", "l", "e", "\n", "w", "h", "y", "\n">>]

FileMoved ==
    [name |-> <<"e", "i", "p", "-", "2", ".", "m", "d">>,
     io |-> "ok",
     content |-> <<"-", "-", "-", "\n", "e", "i", "p", ":", " ", "2", "\n", "s", "t", "a", "t", "u", "s", ":", " ", "M", "o", "v", "e", "d", "\n", "-", "-", "-", "\n", "#", "#", " ", "A", "b", "s", "t", "r", "a", "c", "t", "\n", "x", "\n">>]

FileUnreadable ==
    [name |-> <<"e", "i", "p", "-", "3", ".", "m", "d">>,
     io |-> "unreadable",
     content |-> <<"-", "-", "-", "\n", "e", "i", "p", ":", " ", "3", "\n", "-", "-", "-", "\n">>]

FileFloatRequires ==
    [name |-> <<"e", "i", "p", "-", "4", ".", "m", "d">>,
     io |-> "ok",
     content |-> <<"-", "-", "-", "\n", "e", "i", "p", ":", " ", "4", "\n", "r", "e", "q", "u", "i", "r", "e", "s", ":", " ", "1", ".", "5", "\n", "-", "-", "-", "\n", "#", "#", " ", "A", "b", "s", "t", "r", "a", "c", "t", "\n", "x", "\n">>]

FileEmptyHeader ==
    [name |-> <<"e", "i", "p", "-", "5", ".", "m", "d">>,
     io |-> "ok",
     content |-> <<"-", "-", "-", "\n", "\n", "-", "-", "-", "\n", "#", "#", " ", "A", "b", "s", "t", "r", "a", "c", "t", "\n", "x", "\n">>]

FileVanishing ==
    [name |-> <<"e", "i", "p", "-", "6", ".", "m", "d">>,
     io |-> "vanishes",
     content |-> <<"-", "-", "-", "\n", "e", "i", "p", ":", " ", "6", "\n", "-", "-", "-", "\n", "#", "#", " ", "A", "b", "s", "t", "r", "a", "c", "t", "\n", "x", "\n">>]

FileLowerMoved ==
    [name |-> <<"E", "i", "p", "-", "7", ".", "m", "d">>,
     io |-> "ok",
     content |-> <<"-", "-", "-", "\n", "e", "i", "p", ":", " ", "7", "\n", "s", "t", "a", "t", "u", "s", ":", " ", "m", "o", "v", "e", "d", "\n", "-", "-", "-", "\n">>]

FileAliased ==
    [name |-> <<"E", "R", "C", "-", "2", "0", ".", "m", "d">>,
     io |-> "ok",
     content |-> <<"-", "-", "-", "\n", "e", "i", "p", ":", " ", "2", "0", "\n", "t", "i", "t", "l", "e", ":", " ", "T", "\n", "-", "-", "-", "\n", "#", "#", " ", "S", "p", "e", "c", "i", "f", "i", "c", "a", "t", "i", "o", "n", "\n", "s", " ", "s", "\n">>]

FileUpperMoved ==
    [name |-> <<"e", "r", "c", "-", "2", "1", ".", "m", "d">>,
     io |-> "ok",
     content |-> <<"-", "-", "-", "\n", "e", "r", "c", ":", " ", "2", "1", "\n", "e", "i", "p", ":", " ", "9", "9", "\n", "s", "t", "a", "t", "u", "s", ":", " ", "M", "O", "V", "E", "D", "\n", "-", "-", "-", "\n", "#", "#", " ", "A", "b", "s", "t", "r", "a", "c", "t", "\n", "x", "\n">>]

FileScalarHeader ==
    [name |-> <<"e", "r", "c", "-", "2", "2", ".", "m", "d">>,
     io |-> "ok",
     content |-> <<"-", "-", "-", "\n", "f", "o", "o", "\n", "-", "-", "-", "\n", "#", "#", " ", "A", "b", "s", "t", "r", "a", "c", "t", "\n", "x", "\n">>]

FileIntStatus ==
    [name |-> <<"e", "r", "c", "-", "2", "3", ".", "m", "d">>,
     io |-> "ok",
     content |-> <<"-", "-", "-", "\n", "e", "r", "c", ":", " ", "2", "3", "\n", "s", "t", "a", "t", "u", "s", ":", " ", "1", "\n", "-", "-", "-", "\n", "#", "#", " ", "A", "b", "s", "t", "r", "a", "c", "t", "\n", "x", "\n">>]

FileNoHeader ==
    [name |-> <<"e", "r", "c", "-", "2", "4", ".", "m", "d">>,
     io |-> "ok",
     content |-> <<"#", "#", " ", "A", "b", "s", "t", "r", "a", "c", "t", "\n", "x", "\n", "#", "#", "#", " ", "M", "o", "t", "i", "v", "a", "t", "i", "o", "n", "\n", "m", "\n">>]

FileErcUnreadable ==
    [name |-> <<"e", "r", "c", "-", "2", "5", ".", "m", "d">>,
     io |-> "unreadable",
     content |-> <<"-", "-", "-", "\n", "e", "r", "c", ":", " ", "2", "5", "\n", "-", "-", "-", "\n">>]

FileStringRequires ==
    [name |-> <<"e", "r", "c", "-", "2", "6", ".", "m", "d">>,
     io |-> "ok",
     content |-> <<"-", "-", "-", "\n", "e", "r", "c", ":", " ", "2", "6", "\n", "r", "e", "q", "u", "i", "r", "e", "s", ":", " ", "1", "5", "5", ",", " ", "1", "6", "5", "\n", "-", "-", "-", "\n", "#", "#", " ", "R", "a", "t", "i", "o", "n", "a", "l", "e", "\n", "r", "\n">>]

FileReadme ==
    [name |-> <<"R", "E", "A", "D", "M", "E", ".", "m", "d">>,
     io |-> "ok",
     content |-> <<"#", "#", " ", "A", "b", "s", "t", "r", "a", "c", "t", "\n", "x", "\n">>]

Catalog ==
    {FileDraft,
     FileMoved,
     FileUnreadable,
     FileFloatRequires,
     FileEmptyHeader,
     FileVanishing,
     FileLowerMoved,
     FileAliased,
     FileUpperMoved,
     FileScalarHeader,
     FileIntStatus,
     FileNoHeader,
     FileErcUnreadable,
     FileStringRequires,
     FileReadme}

RECURSIVE SeqsUpTo(_, _)
SeqsUpTo(S, n) ==
    IF n = 0 THEN {<<>>}
    ELSE LET shorter == SeqsUpTo(S, n - 1)
         IN  shorter \cup {Append(q, x) : q \in {r \in shorter : Len(r) = n - 1}, x \in S}

\* No call of a single function is in progress.
NoCall == [fn |-> "none"]

\* The state after __init__, as process_all_proposals starts.
Init ==
    /\ proposal_type \in {S_eip, S_erc}
    /\ files \in SeqsUpTo(Catalog, MaxFiles) \ {<<>>}
    /\ tier = 1
    /\ pos = 1
    /\ summaries = <<>>
    /\ artifacts = <<>>
    /\ log = <<>>
    /\ pc = "scan"
    /\ call = NoCall
    /\ ret = None

Spec == Init /\ [][Next]_vars

\* The for loops go on: while a tier is scanned, the loop over the files moves to its
\* next file, or past the last one to the write of the artifact and the next tier.
LoopStep == pc = "scan" /\ pos' \in {pos + 1, 1}

\* The interpreter keeps running the loops of process_all_proposals.
LiveSpec == Spec /\ WF_pos(LoopStep)

(***************************************************************************)
(* Properties of process_all_proposals.                                    *)
(***************************************************************************)
\* Every spelling of 'moved' in upper and lower case letters.
MovedSpellings ==
    {<<m, o, v, e, d>> : m \in {"m", "M"}, o \in {"o", "O"}, v \in {"v", "V"},
                         e \in {"e", "E"}, d \in {"d", "D"}}

\* The decoded header of a readable file, before any aliasing.
RawHeader(file) ==
    LET match == FrontmatterMatch(file.content)
    IN  IF match = None THEN EmptyDict ELSE safe_load(match.s)

\* The file can be read and its header gives status a spelling of 'moved'.
HasMovedStatus(file) ==
    LET raw == RawHeader(file)
    IN  /\ file.io # "unreadable"
        /\ raw.t = "dict"
        /\ S_status \in DOMAIN raw.m
        /\ raw.m[S_status].t = "str"
        /\ raw.m[S_status].s \in MovedSpellings

\* The positions of the candidates that are not moved, in discovery order.
KeptPositions ==
    {i \in 1..Len(files) :
        IsCandidate(proposal_type, files[i]) /\ ~HasMovedStatus(files[i])}

\* Reading or parsing files[i] raises an exception somewhere on lines 111-120.
FailsAt(i, limit) ==
    \/ MovedCheck(proposal_type, files[i]).t = "raise"
    \/ generate_summary(proposal_type, SecondRead(files[i]), limit).t = "raise"
    \/ HasAt(generate_summary(proposal_type, SecondRead(files[i]), limit).s, 1, S_ErrorPrefix)

RankOf(i) == Cardinality({j \in KeptPositions : j <= i})

\* C1: every candidate that is not moved and whose reading or parsing raises has
\* exactly one 'ERROR processing ...' record in each tier's artifact, at its place
\* in discovery order among the records of the other kept candidates.
C1_ErrorRecordForEveryFailure ==
    \A k \in 1..Len(artifacts) :
        /\ Len(artifacts[k].records) = Cardinality(KeptPositions)
        /\ \A i \in KeptPositions :
              FailsAt(i, TokenLimits[k].limit)
                  => HasAt(artifacts[k].records[RankOf(i)], 1, S_ErrorPrefix)

\* The artifact names of the three tiers, in the order short, medium, long.
ExpectedNames ==
    IF proposal_type = S_eip
    THEN << <<"e", "i", "p", "_", "s", "u", "m", "m", "a", "r", "i", "e", "s", "_", "s", "h", "o", "r", "t", ".", "t", "x", "t">>,
            <<"e", "i", "p", "_", "s", "u", "m", "m", "a", "r", "i", "e", "s", "_", "m", "e", "d", "i", "u", "m", ".", "t", "x", "t">>,
            <<"e", "i", "p", "_", "s", "u", "m", "m", "a", "r", "i", "e", "s", "_", "l", "o", "n", "g", ".", "t", "x", "t">> >>
    ELSE << <<"e", "r", "c", "_", "s", "u", "m", "m", "a", "r", "i", "e", "s", "_", "s", "h", "o", "r", "t", ".", "t", "x", "t">>,
            <<"e", "r", "c", "_", "s", "u", "m", "m", "a", "r", "i", "e", "s", "_", "m", "e", "d", "i", "u", "m", ".", "t", "x", "t">>,
            <<"e", "r", "c", "_", "s", "u", "m", "m", "a", "r", "i", "e", "s", "_", "l", "o", "n", "g", ".", "t", "x", "t">> >>

TiersInOrder ==
    /\ Len(artifacts) <= 3
    /\ \A k \in 1..Len(artifacts) : artifacts[k].name = ExpectedNames[k]
    /\ pc = "scan" => Len(artifacts) = tier - 1 /\ pos <= Len(files) + 1
    /\ pc = "done" => Len(artifacts) = 3
    /\ pc \in {"scan", "done"}

\* A tier is written only after every file was visited, and no file is passed
\* over without a step of the loop body.
TierCompleted == Len(artifacts') > Len(artifacts) => pos = Len(files) + 1

\* C2: whatever documents fail, process_all_proposals finishes: the tiers are done
\* in the order short, medium, long, each completed before the next starts, and in
\* the end exactly one artifact per tier named {type}_summaries_{tier}.txt is written.
C2_RunsToCompletion ==
    /\ []TiersInOrder
    /\ [][TierCompleted]_vars
    /\ <>(pc = "done" /\ Len(artifacts) = 3)

\* A run has finished in which a document failed and all three artifacts exist.
C2_Witness ==
    /\ pc = "done"
    /\ Len(artifacts) = 3
    /\ \E e \in 1..Len(log) : log[e].event = "error" /\ log[e].tier = 1
    /\ \E e \in 1..Len(log) : log[e].event = "error" /\ log[e].tier = 3
    /\ artifacts[3].records # <<>>

\* The step of the loop body on a candidate.
MovedStep ==
    (Scanning /\ IsCandidate(proposal_type, files[pos])) =>
        LET moved == HasMovedStatus(files[pos])
        IN  /\ moved =>
                  /\ summaries' = summaries
                  /\ log' = Append(log, [event |-> "skip", tier |-> tier, file |-> pos])
            /\ ~moved =>
                  \/ Len(summaries') = Len(summaries) + 1
                  \/ log' = Append(log, [event |-> "error", tier |-> tier, file |-> pos])

\* No artifact holds more records than there are candidates that are not moved.
NoRecordOfMoved ==
    artifacts # <<>> =>
        LET kept == Cardinality(KeptPositions)
        IN  \A k \in 1..Len(artifacts) : Len(artifacts[k].records) <= kept

\* C3: a candidate whose status is 'moved' in any letter case adds no record, summary
\* or error, to any tier's artifact; a candidate with another or no status is never
\* skipped as moved.
C3_MovedExcluded == [][MovedStep]_vars /\ []NoRecordOfMoved

\* All tiers are written for a corpus holding an upper-case MOVED candidate and a
\* candidate that is kept.
C3_Witness ==
    /\ pc = "done"
    /\ \E i \in 1..Len(files) :
          /\ IsCandidate(proposal_type, files[i])
          /\ HasMovedStatus(files[i])
          /\ RawHeader(files[i]).m[S_status].s # S_moved
    /\ \A k \in 1..3 : Len(artifacts[k].records) = 1
    /\ \E e \in 1..Len(log) : log[e].event = "skip"

(***************************************************************************)
(* Single calls of the methods, on inputs drawn from bounded sets.         *)
(***************************************************************************)
\* The summarizer is constructed and process_all_proposals is not running.
Idle ==
    /\ files = <<>>
    /\ tier = 1
    /\ pos = 1
    /\ summaries = <<>>
    /\ artifacts = <<>>
    /\ log = <<>>
    /\ pc = "call"
    /\ ret = None

Return(value) ==
    /\ pc = "call"
    /\ ret' = value
    /\ pc' = "return"
    /\ UNCHANGED <<proposal_type, files, tier, pos, summaries, artifacts, log, call>>

\* The concatenations of at most n pieces of S.
RECURSIVE Concats(_, _)
Concats(S, n) ==
    IF n = 0 THEN {<<>>}
    ELSE LET shorter == Concats(S, n - 1)
         IN  shorter \cup {q \o x : q \in shorter, x \in S}

\* n words 'a' separated by single spaces.
Words(n) == [i \in 1..(2 * n - 1) |-> IF i % 2 = 1 THEN "a" ELSE " "]

\* The budgets max_tokens // 4 of the three tiers and word counts around their limits.
SectionBudgets == {32, 64, 128}

LongTexts == {Words(n) : n \in {24, 25, 49, 50, 98, 99}}

TruncateInit ==
    /\ Idle
    /\ proposal_type = S_eip
    /\ \/ \E text \in Concats({<<"a">>, <<"b">>, <<" ">>, <<NL>>}, MaxTextLen) :
          \E max_tokens \in (-MaxTokens)..MaxTokens :
             call = [fn |-> "truncate_to_tokens", text |-> text, max_tokens |-> max_tokens]
       \/ \E text \in LongTexts, max_tokens \in SectionBudgets :
             call = [fn |-> "truncate_to_tokens", text |-> text, max_tokens |-> max_tokens]

Truncate == Return(PyStr(truncate_to_tokens(call.text, call.max_tokens)))

TruncateSpec == TruncateInit /\ [][Truncate]_vars

SectionPieces ==
    {SectionMark \o S_Abstract, SectionMark \o S_Motivation, <<"x">>, <<NL>>, <<"#">>, <<" ">>}

SectionInit ==
    /\ Idle
    /\ proposal_type = S_eip
    /\ \E content \in Concats(SectionPieces, MaxSectionPieces) :
          call = [fn |-> "extract_section", content |-> content, section |-> S_Abstract]

ExtractSection == Return(extract_section(call.content, call.section))

SectionSpec == SectionInit /\ [][ExtractSection]_vars

FrontLines == {Fence, <<"a", ":", " ", "1">>, <<"x">>, <<"-", " ", "1">>, <<>>}

FrontmatterInit ==
    /\ Idle
    /\ proposal_type \in {S_eip, S_erc}
    /\ \E lines \in SeqsUpTo(FrontLines, MaxFrontLines) :
          call = [fn |-> "extract_frontmatter", content |-> Join(lines, <<NL>>)]

ExtractFrontmatter == Return(extract_frontmatter(proposal_type, call.content))

FrontmatterSpec == FrontmatterInit /\ [][ExtractFrontmatter]_vars

\* Header bodies of proposals.
Headers ==
    {PyStr(<<"e", "i", "p", ":", " ", "1", "\n", "t", "i", "t", "l", "e", ":", " ", "T", "\n", "s", "t", "a", "t", "u", "s", ":", " ", "D", "r", "a", "f", "t", "\n", "r", "e", "q", "u", "i", "r", "e", "s", ":", " ", "5">>),
     PyStr(<<"e", "r", "c", ":", " ", "2", "0">>),
     PyStr(<<"e", "i", "p", ":", " ", "7", "\n", "e", "r", "c", ":", " ", "2", "0">>),
     PyStr(<<"e", "r", "c", ":", "\n", "e", "i", "p", ":", " ", "7">>),
     PyStr(<<"t", "i", "t", "l", "e", ":", " ", "T">>),
     PyStr(<<"e", "i", "p", ":", " ", "7", "\n", "r", "e", "q", "u", "i", "r", "e", "s", ":", " ", "1", ".", "5">>),
     PyStr(<<"e", "i", "p", ":", " ", "7", "\n", "r", "e", "q", "u", "i", "r", "e", "s", ":", " ", "1", "5", "5", ",", " ", "1", "6", "5">>),
     PyStr(<<"e", "i", "p", ":", " ", "7", "\n", "r", "e", "q", "u", "i", "r", "e", "s", ":">>),
     PyStr(<<"e", "i", "p", ":", " ", "7", "\n", "r", "e", "q", "u", "i", "r", "e", "s", ":", " ", "x">>),
     PyStr(<<>>),
     PyStr(<<"f", "o", "o">>),
     PyStr(<<"-", " ", "1", "\n", "-", " ", "2">>),
     PyStr(<<"e", "i", "p", ":", " ", "7", "\n", "f", "o", "o">>),
     PyStr(<<"e", "i", "p", ":", " ", "7", "\n", "r", "e", "q", "u", "i", "r", "e", "s", ":", "\n", "-", " ", "2", "\n", "-", " ", "1">>),
     PyStr(<<"e", "r", "c", ":", " ", "2", "0", "\n", "t", "y", "p", "e", ":", " ", "S", "\n", "c", "a", "t", "e", "g", "o", "r", "y", ":", " ", "E", "R", "C", "\n", "c", "r", "e", "a", "t", "e", "d", ":", " ", "x">>)}

BaseHeader == <<"e", "i", "p", ":", " ", "1", "\n", "t", "i", "t", "l", "e", ":", " ", "T", "\n", "s", "t", "a", "t", "u", "s", ":", " ", "D", "r", "a", "f", "t", "\n", "r", "e", "q", "u", "i", "r", "e", "s", ":", " ", "5">>

BodyPieces ==
    {SectionMark \o S_Abstract \o <<NL>>,
     SectionMark \o S_Specification \o <<NL>>,
     SectionMark \o S_Motivation \o <<NL>>,
     SectionMark \o S_Rationale \o <<NL>>,
     <<"t", " ", "t", NL>>,
     <<NL>>}

BaseBody == <<"#", "#", " ", "A", "b", "s", "t", "r", "a", "c", "t", "\n", "H", "e", "l", "l", "o", " ", "w", "o", "r", "l", "d", ".", "\n">>

\* A Motivation section of 30 words, more than the short tier keeps of a section.
LongBody == SectionMark \o S_Motivation \o <<NL>> \o Words(30) \o <<NL>>

\* A document with the header block `header` (None: without a header block).
Document(header, body) ==
    IF header = None THEN body ELSE Fence \o <<NL>> \o header.s \o <<NL>> \o Fence \o <<NL>> \o body

\* Headers and the long body at every tier's budget, bodies at the short tier's.
SummaryInit ==
    /\ Idle
    /\ proposal_type \in {S_eip, S_erc}
    /\ \/ \E k \in 1..Len(TokenLimits), header \in Headers \cup {None},
             body \in {BaseBody, LongBody} :
             call = [fn |-> "generate_summary", header |-> header,
                     content |-> Document(header, body), max_tokens |-> TokenLimits[k].limit]
       \/ \E body \in Concats(BodyPieces, MaxBodyPieces) :
             call = [fn |-> "generate_summary", header |-> PyStr(BaseHeader),
                     content |-> Document(PyStr(BaseHeader), body),
                     max_tokens |-> TokenLimits[1].limit]

GenerateSummary == Return(generate_summary(proposal_type, PyStr(call.content), call.max_tokens))

SummarySpec == SummaryInit /\ [][GenerateSummary]_vars

(***************************************************************************)
(* Properties of extract_frontmatter, extract_section, truncate_to_tokens. *)
(***************************************************************************)
Returned(fn) == pc = "return" /\ call.fn = fn

\* The content has no header block, or its body decodes to no mapping.
NoMappingHeader(content) ==
    \/ FrontmatterMatch(content) = None
    \/ safe_load(FrontmatterMatch(content).s).t # "dict"

\* C4: extract_frontmatter never raises and always returns a mapping, in both modes;
\* without a header block, or with a body that decodes to no mapping (malformed,
\* empty, a bare scalar or a list), it returns the empty mapping.
C4_AlwaysMapping ==
    Returned("extract_frontmatter") =>
        /\ ret.t = "dict"
        /\ NoMappingHeader(call.content) => ret = EmptyDict

\* The lines of the content and the first line that is exactly '## section'.
HeadingLines(content, section) ==
    {i \in 1..Len(SplitOn(content, NL)) : SplitOn(content, NL)[i] = SectionMark \o section}

\* The first line after line i that begins with '## ', or one past the last line.
NextHeading(content, i) ==
    LET lines == SplitOn(content, NL)
        later == {j \in (i + 1)..Len(lines) : HasAt(lines[j], 1, SectionMark)}
    IN  IF later = {} THEN Len(lines) + 1 ELSE SetMin(later)

\* The trimmed text strictly between the heading line and the next heading.
SectionBody(content, section) ==
    LET lines == SplitOn(content, NL)
        i == SetMin(HeadingLines(content, section))
    IN  Strip(Join(Slice(lines, i + 1, NextHeading(content, i) - 1), <<NL>>))

\* C6: extract_section returns None iff no line is exactly '## H'; otherwise the
\* trimmed text between the first such line and the next line beginning with '## '
\* or the end, never text of a following section, never matching '### H', and the
\* empty string when the heading is the last line.
C6_SectionBetweenHeadings ==
    Returned("extract_section") =>
        IF HeadingLines(call.content, call.section) = {} THEN ret = None
        ELSE ret = PyStr(SectionBody(call.content, call.section))

Min(a, b) == IF a < b THEN a ELSE b

\* C7: for max_tokens >= 0 the result is the first min(word count, floor(max_tokens
\* / 1.3)) words joined by single spaces: never more words than the limit, and the
\* whitespace-normalised text itself when it has no more words than the limit; the
\* budgets 128, 256, 512 and 32, 64, 128 give the limits 98, 196, 393 and 24, 49, 98.
C7_TruncateToWordLimit ==
    /\ <<WordLimit(128), WordLimit(256), WordLimit(512)>> = <<98, 196, 393>>
    /\ <<WordLimit(32), WordLimit(64), WordLimit(128)>> = <<24, 49, 98>>
    /\ (Returned("truncate_to_tokens") /\ call.max_tokens >= 0) =>
          LET words == Split(call.text)
              limit == (10 * call.max_tokens) \div 13
          IN  /\ ret = PyStr(Join(Slice(words, 1, Min(Len(words), limit)), <<" ">>))
              /\ Len(Split(ret.s)) <= limit
              /\ Len(words) <= limit => ret.s = Join(words, <<" ">>)

\* A text of 25 words was cut to the 24 words of the short tier's section budget.
C7_Witness ==
    /\ Returned("truncate_to_tokens")
    /\ call.max_tokens = 32
    /\ Len(Split(call.text)) = 25
    /\ ret = PyStr(Words(24))

\* C8: for max_tokens <= 0 the result is the empty string.
C8_EmptyForNonPositive ==
    (Returned("truncate_to_tokens") /\ call.max_tokens <= 0) => ret = PyStr(<<>>)

(***************************************************************************)
(* Properties of generate_summary.                                         *)
(***************************************************************************)
\* The decoded header of the call's document, before any aliasing.
CallHeader == IF call.header = None THEN EmptyDict ELSE safe_load(call.header.s)

\* The requires values as the claim has them: none for an absent or null field,
\* the scalar itself for a scalar, the elements for a list.
WholeRequires(m) ==
    IF S_requires \notin DOMAIN m \/ m[S_requires].t = "none" THEN <<>>
    ELSE IF m[S_requires].t = "list" THEN m[S_requires].l
    ELSE <<m[S_requires]>>

\* C5: the REQUIRES line renders the whole requires values in order: a bare scalar,
\* integer or not, as one value, an absent or null field as none, a list unchanged.
C5_RequiresWholeValues ==
    (Returned("generate_summary") /\ CallHeader.t = "dict") =>
        LET m == extract_frontmatter(proposal_type, call.content).m
        IN  ret = PyStr(Join(HeaderParts(proposal_type, m, WholeRequires(CallHeader.m))
                                 \o SectionParts(call.content, call.max_tokens \div 4, 4),
                             <<NL>>))

\* The identifier the claim gives a header: erc, else eip, else Unknown in erc mode;
\* eip, else Unknown in eip mode.
ResolvedIdentifier(ptype, m) ==
    IF ptype = S_erc /\ S_erc \in DOMAIN m THEN m[S_erc]
    ELSE IF S_eip \in DOMAIN m THEN m[S_eip]
    ELSE PyStr(S_Unknown)

\* C9: in erc mode the identifier is 'erc' when present, else the 'eip' value, which
\* extract_frontmatter copies into 'erc', else Unknown; in eip mode it is 'eip' when
\* present, else Unknown, and 'erc' is never copied into or used as 'eip'; an existing
\* 'erc' value is never overwritten.
C9_IdentifierResolution ==
    (Returned("generate_summary") /\ CallHeader.t = "dict") =>
        LET raw == CallHeader.m
            m   == extract_frontmatter(proposal_type, call.content).m
            id  == StrOf(ResolvedIdentifier(proposal_type, raw))
        IN  /\ \/ HasAt(ret.s, 1, <<"=", "=", "=", " ">> \o Upper(proposal_type) \o <<"-">>
                                      \o id \o <<" ", "=", "=", "=", NL>>)
               \/ HasAt(ret.s, 1, S_ErrorPrefix \o id \o <<":", " ">>)
            /\ \A k \in DOMAIN raw : m[k] = raw[k]
            /\ proposal_type = S_eip => m = raw
            /\ proposal_type = S_erc =>
                  /\ DOMAIN m \subseteq DOMAIN raw \cup {S_erc}
                  /\ (S_erc \notin DOMAIN raw /\ S_eip \in DOMAIN raw) => m[S_erc] = raw[S_eip]
                  /\ (S_erc \notin DOMAIN raw /\ S_eip \notin DOMAIN raw) => m = raw

\* An erc summary took its identifier from the 'eip' field of a header without 'erc'.
C9_Witness ==
    /\ Returned("generate_summary")
    /\ proposal_type = S_erc
    /\ CallHeader.t = "dict"
    /\ S_erc \notin DOMAIN CallHeader.m
    /\ S_eip \in DOMAIN CallHeader.m
    /\ HasAt(ret.s, 1, <<"=", "=", "=", " ", "E", "R", "C", "-", "1", " ", "=", "=", "=", NL>>)

\* The sections that are extracted with a non-empty trimmed body, in the fixed order.
PresentSections(content) ==
    {n \in 1..4 : /\ extract_section(content, SectionHeadings[n]) # None
                  /\ extract_section(content, SectionHeadings[n]).s # <<>>}

FixedLabels == <<S_SUMMARY, S_SPECIFICATION, S_MOTIVATION, S_RATIONALE>>

\* The blocks of the present sections: label, colon, the non-empty body.
ExpectedBlocks(content, budget) ==
    LET present == PresentSections(content)
        nth(k) == CHOOSE n \in present : Cardinality({j \in present : j < n}) = k - 1
    IN  [k \in 1..Cardinality(present) |->
            FixedLabels[nth(k)] \o <<":", NL>>
                \o truncate_to_tokens(extract_section(content, SectionHeadings[nth(k)]).s, budget)
                \o <<NL>>]

\* C10: a summary is the header block followed by the section blocks in the order
\* SUMMARY, SPECIFICATION, MOTIVATION, RATIONALE, whatever the order of the headings;
\* a block is there iff its section is extracted with a non-empty trimmed body, each
\* label at most once and none with an empty body.
C10_SectionBlocksInFixedOrder ==
    (Returned("generate_summary") /\ CallHeader.t = "dict"
        /\ ~HasAt(ret.s, 1, S_ErrorPrefix)) =>
        LET m == extract_frontmatter(proposal_type, call.content).m
            budget == call.max_tokens \div 4
        IN  /\ ret = PyStr(Join(HeaderParts(proposal_type, m, Iterate(NormalizeRequires(m)))
                                    \o ExpectedBlocks(call.content, budget), <<NL>>))
            /\ \A n \in PresentSections(call.content) :
                  truncate_to_tokens(extract_section(call.content, SectionHeadings[n]).s,
                                     budget) # <<>>

\* A summary of a document whose Rationale comes before its Abstract.
C10_Witness ==
    /\ Returned("generate_summary")
    /\ call.content = Document(PyStr(BaseHeader),
                               SectionMark \o S_Rationale \o <<NL>> \o <<"t", " ", "t", NL>>
                                   \o SectionMark \o S_Abstract \o <<NL>> \o <<"t", " ", "t", NL>>)
    /\ PresentSections(call.content) = {1, 4}
    /\ Contains(ret.s, S_SUMMARY \o <<":", NL, "t", " ", "t", NL, NL>> \o S_RATIONALE)

====
